---- MODULE Spec2Model ----
(***************************************************************************)
(* A model of tensorfn/vision/autoaugment.py: the magnitude rescaling      *)
(* functions, the operation registry and policy table builder              *)
(* (autoaugment_policy), the per-operation sample() methods and the policy *)
(* executor (AutoAugment.__call__ and AutoAugment.check).                  *)
(*                                                                         *)
(* Number conventions.  Python floats are fixed-point numbers counted in   *)
(* thousandths (0.3 is 300, 1.8 is 1800, 0.1 is 100); binary rounding of   *)
(* floats is not modelled.  Probabilities are counted in tenths (0.4 is 4, *)
(* 1.0 is 10), which is exact for every probability of the literal table.  *)
(* Integers are Python integers.                                           *)
(***************************************************************************)
EXTENDS Integers, Sequences, FiniteSets, TLC

VARIABLES
    \* one call of rescale_float / rescale_int
    rkind, rlevel, rmax, rres,
    \* autoaugment_policy(): the literal table, loop positions, locals, outcome
    policy_list, bi, bj, sub_pol, reparam_policy, bpc, bret,
    \* one call of <transform>.sample()
    s_pc, s_inst, s_draw, s_res,
    \* AutoAugment: self.policy (and the table as it was built), the input
    \* image and the draws made so far from the seeded generator
    policy, policy_built, input, tape,
    \* one call of AutoAugment.__call__: position, locals, the fire/skip history
    cpc, csel, ck, cimg, cpos, chist,
    \* one call of AutoAugment.check: position, locals
    kpc, ksel, kk, kimg, kpos, klog,
    \* one step constructed by direct calls: augment_fn(rescale(level, max_val), p=prob)
    d_pc, d_level, d_max, d_prob, d_inst

rvars == <<rkind, rlevel, rmax, rres>>
bvars == <<policy_list, bi, bj, sub_pol, reparam_policy, bpc, bret>>
svars == <<s_pc, s_inst, s_draw, s_res>>
evars == <<policy, policy_built, input, tape,
           cpc, csel, ck, cimg, cpos, chist, kpc, ksel, kk, kimg, kpos, klog>>
dvars == <<d_pc, d_level, d_max, d_prob, d_inst>>
vars == <<rvars, bvars, svars, evars, dvars>>

(***************************************************************************)
(* Bounds of the model.                                                    *)
(***************************************************************************)
\* target maxima tried by the rescaling check are -MaxTarget..MaxTarget
MaxTarget == 12
\* generated literal tables have at most MaxSubs sub-policies ...
MaxSubs == 2
\* ... of at most MaxSteps triples each
MaxSteps == 2

(***************************************************************************)
(* Rescaling functions (lines 9-14).                                       *)
(***************************************************************************)
\* default of the param_max argument
param_max == 10

\* float(level): an integer level as a float (thousandths)
py_float(level) == level * 1000

\* int(n / d) for d > 0: Python's int() truncates toward zero
py_int(n, d) == IF n >= 0 THEN n \div d ELSE -((-n) \div d)

\* float(level) * max_val / param_max, max_val a float (thousandths)
rescale_float(level, max_val, pmax) == ((py_float(level) * max_val) \div 1000) \div pmax

\* a plausible slip: floor division (level * max_val // param_max) instead of int(.../...)
rescale_int_floor(level, max_val, pmax) == (level * max_val) \div pmax

\* int(level * max_val / param_max), max_val an integer
rescale_int(level, max_val, pmax) == py_int(level * max_val, pmax)

\* levels of the declared range [0, param_max]
Levels == 0 .. param_max

\* float target maxima (thousandths): a grid of twentieths, and the registry's 0.3, 1.8
FloatTargets == {50 * h : h \in (-MaxTarget) .. MaxTarget} \cup {300, 1800}

\* integer target maxima: a range around zero, and the registry's 4, 10, 30, 256
IntTargets == ((-MaxTarget) .. MaxTarget) \cup {4, 10, 30, 256}

RInit == rkind = "none" /\ rlevel = 0 /\ rmax = 0 /\ rres = 0

\* a call rescale_float(level, max_val) with the default param_max
RescaleFloat ==
    \E level \in Levels, max_val \in FloatTargets :
        /\ rkind' = "float"
        /\ rlevel' = level
        /\ rmax' = max_val
        /\ rres' = rescale_float(level, max_val, param_max)
        /\ UNCHANGED <<bvars, svars, evars, dvars>>

\* a call rescale_int(level, max_val) with the default param_max
RescaleInt ==
    \E level \in Levels, max_val \in IntTargets :
        /\ rkind' = "int"
        /\ rlevel' = level
        /\ rmax' = max_val
        /\ rres' = rescale_int(level, max_val, param_max)
        /\ UNCHANGED <<bvars, svars, evars, dvars>>

(***************************************************************************)
(* Transform instances.  An instance is the record of what its constructor *)
(* stored: the class, p (tenths), the mirror flag (FALSE for the classes   *)
(* that have none) and args, the positional magnitude (<<m>>, or <<>> for  *)
(* the classes constructed from the probability alone).                    *)
(***************************************************************************)
AffineClasses == {"ShearX", "ShearY", "TranslateX", "TranslateY", "Rotate"}

ParamClasses == {"Posterize", "Solarize", "Saturation", "Contrast", "Brightness", "Sharpness"}

NoParamClasses == {"Invert", "AutoContrast", "Equalize"}

\* the keyword each class stores its magnitude under and returns from sample()
ParamName(cls) ==
    CASE cls = "ShearX" -> "shear_x"
      [] cls = "ShearY" -> "shear_y"
      [] cls = "TranslateX" -> "translate_x"
      [] cls = "TranslateY" -> "translate_y"
      [] cls = "Rotate" -> "rotate"
      [] cls = "Posterize" -> "bits"
      [] cls = "Solarize" -> "threshold"
      [] cls = "Saturation" -> "saturation"
      [] cls = "Contrast" -> "contrast"
      [] cls = "Brightness" -> "brightness"
      [] cls = "Sharpness" -> "sharpness"

\* AutoAugmentAffine.__init__ and its subclasses' __init__
AffineInit(cls, magnitude, mirror, p) ==
    [cls |-> cls, p |-> p, mirror |-> mirror, args |-> <<magnitude>>]

\* Posterize / Solarize / Saturation / Contrast / Brightness / Sharpness .__init__
ParamInit(cls, magnitude, p) ==
    [cls |-> cls, p |-> p, mirror |-> FALSE, args |-> <<magnitude>>]

\* transforms.Invert / AutoContrast / Equalize constructed as augment_fn(p=prob)
NoParamInit(cls, p) ==
    [cls |-> cls, p |-> p, mirror |-> FALSE, args |-> <<>>]

(***************************************************************************)
(* The operation registry, autoaugment_map (lines 202-217).                *)
(***************************************************************************)
RegisteredNames ==
    {"ShearX", "ShearY", "TranslateX", "TranslateY", "Rotate", "Solarize",
     "Posterize", "Contrast", "Color", "Brightness", "Sharpness",
     "Invert", "AutoContrast", "Equalize"}

\* first component of a registry entry: the class constructed
augment_class(augment) == IF augment = "Color" THEN "Saturation" ELSE augment

\* whether the second component of the entry is a lambda (not None)
has_reparam(augment) ==
    augment \in RegisteredNames \ {"Invert", "AutoContrast", "Equalize"}

\* a plausible slip: Posterize without the inversion 4 - ...
reparam_fn_noinvert(augment, level) ==
    CASE augment \in {"ShearX", "ShearY"} -> rescale_float(level, 300, param_max)
      [] augment \in {"TranslateX", "TranslateY"} -> rescale_int(level, 10, param_max)
      [] augment = "Rotate" -> rescale_int(level, 30, param_max)
      [] augment = "Solarize" -> 256 - rescale_int(level, 256, param_max)
      [] augment = "Posterize" -> rescale_int(level, 4, param_max)
      [] augment \in {"Contrast", "Color", "Brightness", "Sharpness"} ->
            rescale_float(level, 1800, param_max) + 100

\* the registry's lambdas: the parameter resolved from a level
reparam_fn(augment, level) ==
    CASE augment \in {"ShearX", "ShearY"} -> rescale_float(level, 300, param_max)
      [] augment \in {"TranslateX", "TranslateY"} -> rescale_int(level, 10, param_max)
      [] augment = "Rotate" -> rescale_int(level, 30, param_max)
      [] augment = "Solarize" -> 256 - rescale_int(level, 256, param_max)
      [] augment = "Posterize" -> 4 - rescale_int(level, 4, param_max)
      [] augment \in {"Contrast", "Color", "Brightness", "Sharpness"} ->
            rescale_float(level, 1800, param_max) + 100

\* a plausible slip: a lookup with a default (dict.get) instead of dict[...]
lookup_default(augment) == TRUE

\* autoaugment_map[augment] succeeds; otherwise the subscript raises KeyError
lookup_ok(augment) == augment \in RegisteredNames

\* lines 253-261 for a registered name: the instance appended to sub_pol
build_instance(pol) ==
    LET augment == pol[1]
        prob == pol[2]
        magnitude == pol[3]
        cls == augment_class(augment)
    IN  IF has_reparam(augment)
        THEN IF cls \in AffineClasses
             THEN AffineInit(cls, reparam_fn(augment, magnitude), TRUE, prob)
             ELSE ParamInit(cls, reparam_fn(augment, magnitude), prob)
        ELSE NoParamInit(cls, prob)

(***************************************************************************)
(* The literal table policy_list (lines 219-245): triples                  *)
(* <<operation name, probability (tenths), level>>.                        *)
(***************************************************************************)
CanonicalPolicyList ==
    << << <<"Posterize", 4, 8>>, <<"Rotate", 6, 9>> >>,
       << <<"Solarize", 6, 5>>, <<"AutoContrast", 6, 5>> >>,
       << <<"Equalize", 8, 8>>, <<"Equalize", 6, 3>> >>,
       << <<"Posterize", 6, 7>>, <<"Posterize", 6, 6>> >>,
       << <<"Equalize", 4, 7>>, <<"Solarize", 2, 4>> >>,
       << <<"Equalize", 4, 4>>, <<"Rotate", 8, 8>> >>,
       << <<"Solarize", 6, 3>>, <<"Equalize", 6, 7>> >>,
       << <<"Posterize", 8, 5>>, <<"Equalize", 10, 2>> >>,
       << <<"Rotate", 2, 3>>, <<"Solarize", 6, 8>> >>,
       << <<"Equalize", 6, 8>>, <<"Posterize", 4, 6>> >>,
       << <<"Rotate", 8, 8>>, <<"Color", 4, 0>> >>,
       << <<"Rotate", 4, 9>>, <<"Equalize", 6, 2>> >>,
       << <<"Equalize", 0, 7>>, <<"Equalize", 8, 8>> >>,
       << <<"Invert", 6, 4>>, <<"Equalize", 10, 8>> >>,
       << <<"Color", 6, 4>>, <<"Contrast", 10, 8>> >>,
       << <<"Rotate", 8, 8>>, <<"Color", 10, 0>> >>,
       << <<"Color", 8, 8>>, <<"Solarize", 8, 7>> >>,
       << <<"Sharpness", 4, 7>>, <<"Invert", 6, 8>> >>,
       << <<"ShearX", 6, 5>>, <<"Equalize", 10, 9>> >>,
       << <<"Color", 4, 0>>, <<"Equalize", 6, 3>> >>,
       << <<"Equalize", 4, 7>>, <<"Solarize", 2, 4>> >>,
       << <<"Solarize", 6, 5>>, <<"AutoContrast", 6, 5>> >>,
       << <<"Invert", 6, 4>>, <<"Equalize", 10, 8>> >>,
       << <<"Color", 6, 4>>, <<"Contrast", 10, 8>> >>,
       << <<"Equalize", 8, 8>>, <<"Equalize", 6, 3>> >> >>

(***************************************************************************)
(* Other literal tables for the same build loop: the canonical table with  *)
(* one triple replaced, and short generated tables.  The replacement       *)
(* triples name an unregistered operation, carry a level outside           *)
(* [0, param_max], or name an operation the canonical table never uses.    *)
(* autoaugment_policy() takes no argument: these tables are the loop's     *)
(* behaviour on a changed literal, not inputs a caller can pass.           *)
(***************************************************************************)
FaultTriples ==
    { <<"Flip", 5, 3>>, <<"color", 10, 0>>,
      <<"Rotate", 6, 12>>, <<"Posterize", 5, -3>>,
      <<"TranslateY", 5, 3>>, <<"Brightness", 10, 10>> }

GenTriples == { <<"Flip", 5, 3>>, <<"ShearY", 0, 11>>, <<"Invert", 10, 4>> }

SeqsUpTo(S, n) == UNION { [1 .. k -> S] : k \in 1 .. n }

ReplaceTriple(table, i, j, t) == [table EXCEPT ![i][j] = t]

LiteralTables ==
    {CanonicalPolicyList}
    \cup { ReplaceTriple(CanonicalPolicyList, i, j, t) :
              i \in 1 .. Len(CanonicalPolicyList), j \in 1 .. 2, t \in FaultTriples }
    \cup SeqsUpTo(SeqsUpTo(GenTriples, MaxSteps), MaxSubs)

(***************************************************************************)
(* autoaugment_policy() (lines 247-265), one action per loop position.     *)
(* bpc is "loop" while the loops run, "returned" after return, "KeyError"  *)
(* when the registry subscript raised; bret is what the caller received.   *)
(***************************************************************************)
\* the function is entered: policy_list is the literal of lines 219-245
BInit ==
    /\ policy_list = CanonicalPolicyList
    /\ bi = 1
    /\ bj = 1
    /\ sub_pol = <<>>
    /\ reparam_policy = <<>>
    /\ bpc = "loop"
    /\ bret = <<>>

\* the loops of lines 247-265 entered on any of the literal tables above.  The
\* function itself only ever holds the canonical table; the other tables widen
\* the inputs of the loops, so only properties that hold of every table are
\* concluded from them, never a failure of the function.
BLoopInit ==
    /\ policy_list \in LiteralTables
    /\ bi = 1
    /\ bj = 1
    /\ sub_pol = <<>>
    /\ reparam_policy = <<>>
    /\ bpc = "loop"
    /\ bret = <<>>

\* one iteration of the inner loop (lines 252-261)
BuildTriple ==
    /\ bpc = "loop"
    /\ bi <= Len(policy_list)
    /\ bj <= Len(policy_list[bi])
    /\ LET pol == policy_list[bi][bj]
       IN  IF lookup_ok(pol[1])
           THEN /\ sub_pol' = Append(sub_pol, build_instance(pol))
                /\ bj' = bj + 1
                /\ UNCHANGED bpc
           ELSE /\ bpc' = "KeyError"
                /\ UNCHANGED <<sub_pol, bj>>
    /\ UNCHANGED <<policy_list, bi, reparam_policy, bret, rvars, svars, evars, dvars>>

\* the end of one outer iteration (line 263) and, when a sub-policy is left,
\* the start of the next (line 250: sub_pol = []); after the last iteration
\* line 250 does not run again and sub_pol keeps the last sub-policy
BuildAppendSub ==
    /\ bpc = "loop"
    /\ bi <= Len(policy_list)
    /\ bj > Len(policy_list[bi])
    /\ reparam_policy' = Append(reparam_policy, sub_pol)
    /\ sub_pol' = IF bi < Len(policy_list) THEN <<>> ELSE sub_pol
    /\ bi' = bi + 1
    /\ bj' = 1
    /\ UNCHANGED <<policy_list, bpc, bret, rvars, svars, evars, dvars>>

\* return reparam_policy (line 265)
BuildReturn ==
    /\ bpc = "loop"
    /\ bi > Len(policy_list)
    /\ bret' = reparam_policy
    /\ bpc' = "returned"
    /\ UNCHANGED <<policy_list, bi, bj, sub_pol, reparam_policy, rvars, svars, evars, dvars>>

(***************************************************************************)
(* Random draws.  A call consumes draws from a tape, a sequence of numbers *)
(* read from a position on; every operator that draws returns the position *)
(* after its last draw.  random.random() at position pos is t[pos]      *)
(* tenths, a number of [0, 1).                                             *)
(***************************************************************************)
Draws == 0 .. 9

\* random.random(), in tenths
random_random(t, pos) == t[pos] % 10

\* transforms.check_prob(p): one uniform draw, TRUE with probability p
check_prob(p, t, pos) == random_random(t, pos) < p

(***************************************************************************)
(* sample() (lines 54-57, 69-72, 84-87, 99-102, 114-117, 129-195).  The    *)
(* result is [ok, err, kw, pos]: kw is the returned dict as a sequence of  *)
(* <<key, value>> pairs, ok = FALSE when the call raised err.              *)
(***************************************************************************)
\* a plausible slip: the sign flip ignores the mirror flag
mirror_always(inst, val, t, pos) ==
    IF check_prob(5, t, pos)
    THEN [val |-> -val, pos |-> pos + 1]
    ELSE [val |-> val, pos |-> pos + 1]

\* AutoAugmentAffine._mirror (lines 24-28); the draw is made only when self.mirror
mirror_(inst, val, t, pos) ==
    IF inst.mirror
    THEN IF check_prob(5, t, pos)
         THEN [val |-> -val, pos |-> pos + 1]
         ELSE [val |-> val, pos |-> pos + 1]
    ELSE [val |-> val, pos |-> pos]

\* ShearX / ShearY / TranslateX / Rotate .sample
affine_sample(inst, t, pos) ==
    LET m == mirror_(inst, inst.args[1], t, pos)
    IN  [ok |-> TRUE, err |-> "", kw |-> << <<ParamName(inst.cls), m.val>> >>, pos |-> m.pos]

\* TranslateY.sample (lines 99-102): _mirror runs, then the return statement
\* reads the name trans_x, bound neither in the method nor in the module
TranslateY_sample(inst, t, pos) ==
    LET m == mirror_(inst, inst.args[1], t, pos)
    IN  [ok |-> FALSE, err |-> "NameError", kw |-> <<>>, pos |-> m.pos]

\* Posterize / Solarize / Saturation / Contrast / Brightness / Sharpness .sample
param_sample(inst, t, pos) ==
    [ok |-> TRUE, err |-> "", kw |-> << <<ParamName(inst.cls), inst.args[1]>> >>, pos |-> pos]

\* Invert / AutoContrast / Equalize .sample: no parameters
noparam_sample(inst, t, pos) ==
    [ok |-> TRUE, err |-> "", kw |-> <<>>, pos |-> pos]

\* pol.sample(), dispatched on the class of pol
sample(inst, t, pos) ==
    CASE inst.cls = "TranslateY" -> TranslateY_sample(inst, t, pos)
      [] inst.cls \in AffineClasses \ {"TranslateY"} -> affine_sample(inst, t, pos)
      [] inst.cls \in ParamClasses -> param_sample(inst, t, pos)
      [] inst.cls \in NoParamClasses -> noparam_sample(inst, t, pos)

\* magnitudes of the instances sampled: zero, an integer, a float (0.15)
SampleMags == {0, 3, 150}

InstPool ==
    { AffineInit(c, m, mir, 6) : c \in AffineClasses, m \in SampleMags, mir \in BOOLEAN }
    \cup { ParamInit(c, m, 6) : c \in ParamClasses, m \in SampleMags }
    \cup { NoParamInit(c, 6) : c \in NoParamClasses }

NoInst == NoParamInit("none", 0)

NoResult == [ok |-> TRUE, err |-> "", kw |-> <<>>, pos |-> 1]

SInit == s_pc = "idle" /\ s_inst = NoInst /\ s_draw = <<0>> /\ s_res = NoResult

\* one call inst.sample() on a constructed instance, with the draw it may read
Sample ==
    \E inst \in InstPool, d \in Draws :
        /\ s_inst' = inst
        /\ s_draw' = <<d>>
        /\ s_res' = sample(inst, <<d>>, 1)
        /\ s_pc' = IF sample(inst, <<d>>, 1).ok THEN "returned" ELSE "raised"
        /\ UNCHANGED <<rvars, bvars, evars, dvars>>

(***************************************************************************)
(* The policy executor (lines 268-296).  An image is the sequence of the   *)
(* operations applied to it, each <<class, kw>>: the pixel transforms are  *)
(* opaque, an applied operation yields a new image that records it.        *)
(***************************************************************************)
\* _apply_img(img, **kw) of any class: a new image, the operation applied
apply_img_fn(inst, img, kw) == Append(img, <<inst.cls, kw>>)

\* RandomTransform.apply_img(img, **kw): one gate draw against self.p; the
\* image is transformed when the gate fires and passed through when it fails
apply_img(inst, img, kw, t, pos) ==
    IF check_prob(inst.p, t, pos)
    THEN [img |-> apply_img_fn(inst, img, kw), fired |-> TRUE, pos |-> pos + 1]
    ELSE [img |-> img, fired |-> FALSE, pos |-> pos + 1]

\* RandomTransform.apply_img_check(img, **kw): the same gate, one draw, and the
\* diagnostic of what was done (whether the operation was applied)
apply_img_check(inst, img, kw, t, pos) ==
    IF check_prob(inst.p, t, pos)
    THEN [img |-> apply_img_fn(inst, img, kw), check |-> TRUE, pos |-> pos + 1]
    ELSE [img |-> img, check |-> FALSE, pos |-> pos + 1]

\* random.choice(seq): one draw selects a member of seq
random_choice(seq, t, pos) == [sel |-> (t[pos] % Len(seq)) + 1, pos |-> pos + 1]

\* a plausible slip: the sampled value is stored back into the instance
self_stores_sample(inst, s) ==
    IF s.ok /\ inst.cls \in AffineClasses
    THEN [inst EXCEPT !.args = <<s.kw[1][2]>>]
    ELSE inst

\* the instance after its sample() ran: _mirror negates its local val, and
\* sample() binds locals only, so no attribute of self is assigned
self_after_sample(inst, s) == inst

\* a plausible slip: the result of apply_img is dropped (img is not rebound)
call_body_dropped(pol, img, t, pos) ==
    LET s == sample(pol, t, pos)
    IN  IF ~s.ok
        THEN [ok |-> FALSE, img |-> img, fired |-> FALSE, pos |-> s.pos]
        ELSE LET a == apply_img(pol, img, s.kw, t, s.pos)
             IN  [ok |-> TRUE, img |-> img, fired |-> a.fired, pos |-> a.pos]

\* the body of the loop of __call__ (lines 276-277)
call_body(pol, img, t, pos) ==
    LET s == sample(pol, t, pos)
    IN  IF ~s.ok
        THEN [ok |-> FALSE, img |-> img, fired |-> FALSE, pos |-> s.pos]
        ELSE LET a == apply_img(pol, img, s.kw, t, s.pos)
             IN  [ok |-> TRUE, img |-> a.img, fired |-> a.fired, pos |-> a.pos]

\* a plausible slip: the logged sample comes from a second call of sample()
check_body_resampled(pol, img, t, pos) ==
    LET s == sample(pol, t, pos)
    IN  IF ~s.ok
        THEN [ok |-> FALSE, img |-> img, kw |-> <<>>, check |-> FALSE, pos |-> s.pos]
        ELSE LET a == apply_img_check(pol, img, s.kw, t, s.pos)
                 s2 == sample(pol, t, a.pos)
             IN  [ok |-> TRUE, img |-> a.img, kw |-> s2.kw, check |-> a.check, pos |-> s2.pos]

\* the body of the loop of check (lines 292-293)
check_body(pol, img, t, pos) ==
    LET s == sample(pol, t, pos)
    IN  IF ~s.ok
        THEN [ok |-> FALSE, img |-> img, kw |-> <<>>, check |-> FALSE, pos |-> s.pos]
        ELSE LET a == apply_img_check(pol, img, s.kw, t, s.pos)
             IN  [ok |-> TRUE, img |-> a.img, kw |-> s.kw, check |-> a.check, pos |-> a.pos]

\* a plausible slip: only the steps that fired are logged
log_append_fired(log, pol, kw, check) ==
    IF check THEN Append(log, <<pol, kw, check>>) ELSE log

\* log.append((pol, sample, check)) (line 294)
log_append(log, pol, kw, check) == Append(log, <<pol, kw, check>>)

\* a tape long enough for any one loop iteration to read from position pos on
Padded(t, pos) == [i \in 1 .. (pos + 3) |-> IF i <= Len(t) THEN t[i] ELSE 0]

\* the draws one iteration makes that the tape t does not hold yet, newpos being
\* the position the iteration ends at (it depends on the instance, not on the
\* values drawn)
FreshDraws(t, newpos) ==
    [1 .. (IF newpos - 1 > Len(t) THEN newpos - 1 - Len(t) ELSE 0) -> Draws]

\* the tape t with the draws ext standing at the positions from pos on that t
\* does not hold yet (draws already made are replayed, not drawn again)
TapeWith(t, pos, ext) ==
    LET n == IF Len(t) >= pos + Len(ext) - 1 THEN Len(t) ELSE pos + Len(ext) - 1
    IN  [i \in 1 .. n |-> IF i <= Len(t) THEN t[i] ELSE ext[i - pos + 1]]

\* the draws made so far once a reader of t has advanced to position pos
Consumed(t0, t, pos) == SubSeq(t, 1, IF Len(t0) >= pos - 1 THEN Len(t0) ELSE pos - 1)

\* policy tables constructed by hand for AutoAugment(policy)
CustomPolicies ==
    { << << AffineInit("ShearX", 150, FALSE, 10), ParamInit("Posterize", 1, 10) >>,
         << NoParamInit("Invert", 0), AffineInit("TranslateX", 3, TRUE, 0) >>,
         << AffineInit("TranslateY", 3, TRUE, 10), NoParamInit("Equalize", 10) >> >>,
      << << ParamInit("Brightness", 1900, 5) >>,
         << AffineInit("ShearY", 300, TRUE, 10), AffineInit("Rotate", 30, FALSE, 5),
            NoParamInit("AutoContrast", 10) >>,
         << NoParamInit("Invert", 10), AffineInit("TranslateY", 7, FALSE, 5) >> >> }

\* autoaugment_policy() as a value: the literal table built triple by triple
BuiltCanonical ==
    [i \in 1 .. Len(CanonicalPolicyList) |->
        [j \in 1 .. Len(CanonicalPolicyList[i]) |-> build_instance(CanonicalPolicyList[i][j])]]

ExecPolicies == {BuiltCanonical} \cup CustomPolicies

\* input images: a fresh image, and one that already records an operation
Inputs == { <<>>, << <<"Loaded", <<>>>> >> }

EInit ==
    /\ policy \in ExecPolicies
    /\ policy_built = policy
    /\ input \in Inputs
    /\ tape = <<>>
    /\ cpc = "idle" /\ csel = 0 /\ ck = 1 /\ cimg = <<>> /\ cpos = 1 /\ chist = <<>>
    /\ kpc = "idle" /\ ksel = 0 /\ kk = 1 /\ kimg = <<>> /\ kpos = 1 /\ klog = <<>>

\* __call__ entered: selected_policy = random.choice(self.policy) (line 273)
CallSelect ==
    /\ cpc = "idle"
    /\ \E d \in 0 .. (Len(policy) - 1) :
          LET t == TapeWith(tape, 1, <<d>>)
              c == random_choice(policy, t, 1)
          IN  /\ csel' = c.sel
              /\ cpos' = c.pos
              /\ tape' = Consumed(tape, t, c.pos)
    /\ cpc' = "loop"
    /\ ck' = 1
    /\ cimg' = input
    /\ chist' = <<>>
    /\ UNCHANGED <<policy, policy_built, input, kpc, ksel, kk, kimg, kpos, klog,
                   rvars, bvars, svars, dvars>>

\* one iteration of the loop of __call__ (lines 275-277)
CallStep ==
    /\ cpc = "loop"
    /\ ck <= Len(policy[csel])
    /\ \E ext \in FreshDraws(tape, call_body(policy[csel][ck], cimg, Padded(tape, cpos), cpos).pos) :
          LET t == TapeWith(tape, Len(tape) + 1, ext)
              pol == policy[csel][ck]
              r == call_body(pol, cimg, t, cpos)
          IN  /\ policy' = [policy EXCEPT ![csel][ck] = self_after_sample(pol, sample(pol, t, cpos))]
              /\ tape' = Consumed(tape, t, r.pos)
              /\ cpos' = r.pos
              /\ cimg' = r.img
              /\ IF r.ok
                 THEN /\ ck' = ck + 1
                      /\ chist' = Append(chist, r.fired)
                      /\ UNCHANGED cpc
                 ELSE /\ cpc' = "raised"
                      /\ UNCHANGED <<ck, chist>>
    /\ UNCHANGED <<policy_built, input, csel, kpc, ksel, kk, kimg, kpos, klog,
                   rvars, bvars, svars, dvars>>

\* return img (line 279)
CallReturn ==
    /\ cpc = "loop"
    /\ ck > Len(policy[csel])
    /\ cpc' = "done"
    /\ UNCHANGED <<policy, policy_built, input, tape, csel, ck, cimg, cpos, chist,
                   kpc, ksel, kk, kimg, kpos, klog, rvars, bvars, svars, dvars>>

\* check entered: log = [], selected_policy = random.choice(self.policy) (lines 287-289)
CheckSelect ==
    /\ kpc = "idle"
    /\ \E d \in 0 .. (Len(policy) - 1) :
          LET t == TapeWith(tape, 1, <<d>>)
              c == random_choice(policy, t, 1)
          IN  /\ ksel' = c.sel
              /\ kpos' = c.pos
              /\ tape' = Consumed(tape, t, c.pos)
    /\ kpc' = "loop"
    /\ kk' = 1
    /\ kimg' = input
    /\ klog' = <<>>
    /\ UNCHANGED <<policy, policy_built, input, cpc, csel, ck, cimg, cpos, chist,
                   rvars, bvars, svars, dvars>>

\* one iteration of the loop of check (lines 291-294)
CheckStep ==
    /\ kpc = "loop"
    /\ kk <= Len(policy[ksel])
    /\ \E ext \in FreshDraws(tape, check_body(policy[ksel][kk], kimg, Padded(tape, kpos), kpos).pos) :
          LET t == TapeWith(tape, Len(tape) + 1, ext)
              pol == policy[ksel][kk]
              r == check_body(pol, kimg, t, kpos)
          IN  /\ policy' = [policy EXCEPT ![ksel][kk] = self_after_sample(pol, sample(pol, t, kpos))]
              /\ tape' = Consumed(tape, t, r.pos)
              /\ kpos' = r.pos
              /\ kimg' = r.img
              /\ IF r.ok
                 THEN /\ kk' = kk + 1
                      /\ klog' = log_append(klog, pol, r.kw, r.check)
                      /\ UNCHANGED kpc
                 ELSE /\ kpc' = "raised"
                      /\ UNCHANGED <<kk, klog>>
    /\ UNCHANGED <<policy_built, input, ksel, cpc, csel, ck, cimg, cpos, chist,
                   rvars, bvars, svars, dvars>>

\* return img, log (line 296)
CheckReturn ==
    /\ kpc = "loop"
    /\ kk > Len(policy[ksel])
    /\ kpc' = "done"
    /\ UNCHANGED <<policy, policy_built, input, tape, ksel, kk, kimg, kpos, klog,
                   cpc, csel, ck, cimg, cpos, chist, rvars, bvars, svars, dvars>>

\* both calls are over: the next pair of calls runs on a fresh seed, on the
\* same AutoAugment object and any input image
NewRound ==
    /\ cpc \in {"done", "raised"}
    /\ kpc \in {"done", "raised"}
    /\ input' \in Inputs
    /\ tape' = <<>>
    /\ cpc' = "idle" /\ csel' = 0 /\ ck' = 1 /\ cimg' = <<>> /\ cpos' = 1 /\ chist' = <<>>
    /\ kpc' = "idle" /\ ksel' = 0 /\ kk' = 1 /\ kimg' = <<>> /\ kpos' = 1 /\ klog' = <<>>
    /\ UNCHANGED <<policy, policy_built, rvars, bvars, svars, dvars>>

(***************************************************************************)
(* A step constructed by direct calls of the public functions, the way a   *)
(* caller builds a sub-policy of its own for AutoAugment(policy):          *)
(* cls(rescale_int(level, max_val), p=prob) or                             *)
(* cls(rescale_float(level, max_val), p=prob), the expressions the         *)
(* registry's lambdas and line 258 are made of.  The level may lie outside *)
(* [0, param_max]; the probability is kept inside [0, 1], because p only   *)
(* reaches RandomTransform.__init__, which is outside the source file.     *)
(***************************************************************************)
\* levels tried reach LevelSlack below 0 and LevelSlack above param_max
LevelSlack == 2

AnyLevels == (0 - LevelSlack) .. (param_max + LevelSlack)

\* the classes whose magnitude is an integer, with the registry's target maxima
IntStepClasses == {"TranslateX", "TranslateY", "Rotate", "Posterize", "Solarize"}

\* the classes whose magnitude is a float, with the registry's target maxima
FloatStepClasses == {"ShearX", "ShearY", "Saturation", "Contrast", "Brightness", "Sharpness"}

\* cls(magnitude, p=prob): the constructor of cls, mirror left at its default
construct(cls, magnitude, prob) ==
    IF cls \in AffineClasses
    THEN AffineInit(cls, magnitude, TRUE, prob)
    ELSE ParamInit(cls, magnitude, prob)

DInit ==
    /\ d_pc = "idle"
    /\ d_level = 0
    /\ d_max = 0
    /\ d_prob = 0
    /\ d_inst = NoInst

\* cls(rescale_int(level, max_val), p=prob): neither call checks a range
ConstructIntStep ==
    \E cls \in IntStepClasses, level \in AnyLevels, max_val \in {4, 10, 30, 256},
       prob \in {0, 6, 10} :
        /\ d_pc' = "constructed"
        /\ d_level' = level
        /\ d_max' = max_val
        /\ d_prob' = prob
        /\ d_inst' = construct(cls, rescale_int(level, max_val, param_max), prob)
        /\ UNCHANGED <<rvars, bvars, svars, evars>>

\* cls(rescale_float(level, max_val), p=prob): neither call checks a range
ConstructFloatStep ==
    \E cls \in FloatStepClasses, level \in AnyLevels, max_val \in {300, 1800},
       prob \in {0, 6, 10} :
        /\ d_pc' = "constructed"
        /\ d_level' = level
        /\ d_max' = max_val
        /\ d_prob' = prob
        /\ d_inst' = construct(cls, rescale_float(level, max_val, param_max), prob)
        /\ UNCHANGED <<rvars, bvars, svars, evars>>

(***************************************************************************)
(* Specifications: each runs one part of the module; the variables of the  *)
(* other parts are parked at their initial values.                         *)
(***************************************************************************)
BPark ==
    /\ policy_list = <<>>
    /\ bi = 1
    /\ bj = 1
    /\ sub_pol = <<>>
    /\ reparam_policy = <<>>
    /\ bpc = "parked"
    /\ bret = <<>>

EPark ==
    /\ policy = <<>>
    /\ policy_built = <<>>
    /\ input = <<>>
    /\ tape = <<>>
    /\ cpc = "parked" /\ csel = 0 /\ ck = 1 /\ cimg = <<>> /\ cpos = 1 /\ chist = <<>>
    /\ kpc = "parked" /\ ksel = 0 /\ kk = 1 /\ kimg = <<>> /\ kpos = 1 /\ klog = <<>>

RescaleInit == RInit /\ BPark /\ SInit /\ EPark /\ DInit
RescaleNext == RescaleFloat \/ RescaleInt
SpecRescale == RescaleInit /\ [][RescaleNext]_vars

BuildInit == RInit /\ BLoopInit /\ SInit /\ EPark /\ DInit
BuildNext == BuildTriple \/ BuildAppendSub \/ BuildReturn
SpecBuild == BuildInit /\ [][BuildNext]_vars

\* autoaugment_policy() as the program runs it: the canonical table only
CanonicalInit == RInit /\ BInit /\ SInit /\ EPark /\ DInit
SpecBuildCanonical == CanonicalInit /\ [][BuildNext]_vars

ConstructInit == RInit /\ BPark /\ SInit /\ EPark /\ DInit
ConstructNext == ConstructIntStep \/ ConstructFloatStep
SpecConstruct == ConstructInit /\ [][ConstructNext]_vars

SampleInit == RInit /\ BPark /\ SInit /\ EPark /\ DInit
SampleNext == Sample
SpecSample == SampleInit /\ [][SampleNext]_vars

ExecInit == RInit /\ BPark /\ SInit /\ EInit /\ DInit
ExecNext ==
    \/ CallSelect \/ CallStep \/ CallReturn
    \/ CheckSelect \/ CheckStep \/ CheckReturn
    \/ NewRound
SpecExec == ExecInit /\ [][ExecNext]_vars

(***************************************************************************)
(* Claims about the rescaling functions (SpecRescale).                     *)
(***************************************************************************)
\* C2 as stated: for every level L of [0, 10] and every target maximum M,
\* rescale_float(L, M) = L*M/10 and rescale_int(L, M) = floor(L*M/10).
C2_FloorForEveryTarget ==
    /\ rkind = "float" => param_max * rres = rlevel * rmax
    /\ rkind = "int" =>
          /\ param_max * rres <= rlevel * rmax
          /\ rlevel * rmax < param_max * rres + param_max

\* C2 amended: rescale_float(L, M) = L*M/10, and rescale_int(L, M) is L*M/10
\* truncated toward zero: floor(L*M/10) when M >= 0, ceiling(L*M/10) when M < 0.
C2_TruncatesTowardZero ==
    /\ rkind = "float" => param_max * rres = rlevel * rmax
    /\ (rkind = "int" /\ rmax >= 0) =>
          /\ param_max * rres <= rlevel * rmax
          /\ rlevel * rmax < param_max * rres + param_max
    /\ (rkind = "int" /\ rmax < 0) =>
          /\ param_max * rres >= rlevel * rmax
          /\ rlevel * rmax > param_max * rres - param_max

\* rescale_int was called with a negative target and an inexact quotient
C2_NegativeTargetRescaled ==
    rkind = "int" /\ rmax < 0 /\ param_max * rres > rlevel * rmax

(***************************************************************************)
(* Claims about autoaugment_policy (SpecBuild).                            *)
(***************************************************************************)
\* the table autoaugment_policy() returns, as the Python source builds it
ExpectedPolicy ==
    << << ParamInit("Posterize", 1, 4), AffineInit("Rotate", 27, TRUE, 6) >>,
       << ParamInit("Solarize", 128, 6), NoParamInit("AutoContrast", 6) >>,
       << NoParamInit("Equalize", 8), NoParamInit("Equalize", 6) >>,
       << ParamInit("Posterize", 2, 6), ParamInit("Posterize", 2, 6) >>,
       << NoParamInit("Equalize", 4), ParamInit("Solarize", 154, 2) >>,
       << NoParamInit("Equalize", 4), AffineInit("Rotate", 24, TRUE, 8) >>,
       << ParamInit("Solarize", 180, 6), NoParamInit("Equalize", 6) >>,
       << ParamInit("Posterize", 2, 8), NoParamInit("Equalize", 10) >>,
       << AffineInit("Rotate", 9, TRUE, 2), ParamInit("Solarize", 52, 6) >>,
       << NoParamInit("Equalize", 6), ParamInit("Posterize", 2, 4) >>,
       << AffineInit("Rotate", 24, TRUE, 8), ParamInit("Saturation", 100, 4) >>,
       << AffineInit("Rotate", 27, TRUE, 4), NoParamInit("Equalize", 6) >>,
       << NoParamInit("Equalize", 0), NoParamInit("Equalize", 8) >>,
       << NoParamInit("Invert", 6), NoParamInit("Equalize", 10) >>,
       << ParamInit("Saturation", 820, 6), ParamInit("Contrast", 1540, 10) >>,
       << AffineInit("Rotate", 24, TRUE, 8), ParamInit("Saturation", 100, 10) >>,
       << ParamInit("Saturation", 1540, 8), ParamInit("Solarize", 77, 8) >>,
       << ParamInit("Sharpness", 1360, 4), NoParamInit("Invert", 6) >>,
       << AffineInit("ShearX", 150, TRUE, 6), NoParamInit("Equalize", 10) >>,
       << ParamInit("Saturation", 100, 4), NoParamInit("Equalize", 6) >>,
       << NoParamInit("Equalize", 4), ParamInit("Solarize", 154, 2) >>,
       << ParamInit("Solarize", 128, 6), NoParamInit("AutoContrast", 6) >>,
       << NoParamInit("Invert", 6), NoParamInit("Equalize", 10) >>,
       << ParamInit("Saturation", 820, 6), ParamInit("Contrast", 1540, 10) >>,
       << NoParamInit("Equalize", 8), NoParamInit("Equalize", 6) >> >>

\* C1: for the canonical literal table the build never fails and returns exactly
\* 25 sub-policies of exactly 2 steps, in table order; step j of sub-policy i is
\* the class the triple (i, j) names, with the triple's probability and, for an
\* operation with a rescale rule, the parameter resolved from the triple's level
\* (step (1, 1) is Posterize, p = 0.4, bits = 1); Invert, AutoContrast and
\* Equalize carry the probability alone.
C1_CanonicalTableBuilt ==
    policy_list = CanonicalPolicyList =>
        /\ bpc # "KeyError"
        /\ bpc = "returned" =>
              /\ Len(bret) = 25
              /\ \A i \in 1 .. Len(bret) :
                    /\ Len(bret[i]) = 2
                    /\ \A j \in 1 .. 2 :
                          /\ bret[i][j].cls = augment_class(policy_list[i][j][1])
                          /\ bret[i][j].p = policy_list[i][j][2]
                          /\ (bret[i][j].args = <<>>)
                                <=> policy_list[i][j][1] \in {"Invert", "AutoContrast", "Equalize"}
              /\ bret = ExpectedPolicy

\* the canonical table was built and returned, first step Posterize(bits=1, p=0.4)
C1_CanonicalReturned ==
    /\ policy_list = CanonicalPolicyList
    /\ bpc = "returned"
    /\ bret[1][1] = ParamInit("Posterize", 1, 4)
    /\ bret[25][2] = NoParamInit("Equalize", 6)

\* the triples of a table that come before position (i, j), in build order
TriplesBefore(i, j) ==
    { <<a, b>> \in (1 .. Len(policy_list)) \X (1 .. MaxSteps + 2) :
        /\ b <= Len(policy_list[a])
        /\ (a < i \/ (a = i /\ b < j)) }

AllTriples ==
    { <<a, b>> \in (1 .. Len(policy_list)) \X (1 .. MaxSteps + 2) : b <= Len(policy_list[a]) }

\* C3: a triple naming an operation outside the 14 registered names makes the
\* build fail with KeyError at that triple (every earlier triple was registered,
\* none was skipped or substituted), and the caller receives no table, although
\* sub-policies may have been built before the failure; a table is returned only
\* when every triple is registered, and then it has one step per triple.
C3_UnknownOperationFails ==
    /\ bpc = "KeyError" =>
          /\ bret = <<>>
          /\ policy_list[bi][bj][1] \notin RegisteredNames
          /\ \A t \in TriplesBefore(bi, bj) : policy_list[t[1]][t[2]][1] \in RegisteredNames
          /\ Len(reparam_policy) = bi - 1
          /\ Len(sub_pol) = bj - 1
    /\ bpc = "returned" =>
          /\ \A t \in AllTriples : policy_list[t[1]][t[2]][1] \in RegisteredNames
          /\ Len(bret) = Len(policy_list)
          /\ \A i \in 1 .. Len(bret) :
                /\ Len(bret[i]) = Len(policy_list[i])
                /\ \A j \in 1 .. Len(bret[i]) :
                      bret[i][j].cls = augment_class(policy_list[i][j][1])
    /\ bpc = "loop" => bret = <<>>

\* the build failed at an unknown name after whole sub-policies had been built
C3_FailedAfterPartialBuild ==
    /\ bpc = "KeyError"
    /\ Len(reparam_policy) >= 2
    /\ Len(sub_pol) = 1
    /\ bret = <<>>

(***************************************************************************)
(* Claims about the construction of a step (SpecConstruct).                *)
(***************************************************************************)
\* C4, its level half as stated: a step is never constructed from a level
\* outside [0, param_max]; construction fails with an invalid-parameter error
\* instead, so no instance with a parameter derived from such a level exists.
\* (The probability half rests on RandomTransform.__init__, which is not part
\* of the source file, so the probabilities tried stay inside [0, 1].)
C4_InvalidStepNeverConstructed ==
    d_pc = "constructed" => d_level \in Levels

(***************************************************************************)
(* Claims about sample() (SpecSample).                                     *)
(***************************************************************************)
\* the values sample() can return for an instance, over every draw
SampleOutcomes(inst) == { sample(inst, <<d>>, 1).kw : d \in Draws }

\* C9 as stated: TranslateY.sample() always completes and returns
\* {translate_y: v} with v the configured translate_y or, only when mirror is
\* enabled, its negation.
C9_TranslateYReturnsOwnValue ==
    (s_pc # "idle" /\ s_inst.cls = "TranslateY") =>
        /\ s_pc = "returned"
        /\ s_res.ok
        /\ Len(s_res.kw) = 1
        /\ s_res.kw[1][1] = "translate_y"
        /\ s_res.kw[1][2] \in {s_inst.args[1], -s_inst.args[1]}
        /\ ~s_inst.mirror => s_res.kw[1][2] = s_inst.args[1]

\* C10: sample() of ShearX, ShearY, TranslateX and Rotate with magnitude m
\* returns one value, m or -m; with mirror disabled it is m and no draw is made,
\* with mirror enabled one draw is made and both m and -m are outcomes; sample()
\* of Posterize, Solarize, Saturation, Contrast, Brightness and Sharpness makes
\* no draw and returns the configured parameter.
C10_SampleValues ==
    /\ (s_pc # "idle" /\ s_inst.cls \in {"ShearX", "ShearY", "TranslateX", "Rotate"}) =>
          LET m == s_inst.args[1]
              key == ParamName(s_inst.cls)
          IN  /\ s_pc = "returned"
              /\ Len(s_res.kw) = 1
              /\ s_res.kw[1][1] = key
              /\ s_res.kw[1][2] \in {m, -m}
              /\ ~s_inst.mirror =>
                    /\ s_res.kw[1][2] = m
                    /\ s_res.pos = 1
                    /\ SampleOutcomes(s_inst) = { << <<key, m>> >> }
              /\ s_inst.mirror =>
                    /\ s_res.pos = 2
                    /\ SampleOutcomes(s_inst) = { << <<key, m>> >>, << <<key, -m>> >> }
    /\ (s_pc # "idle" /\ s_inst.cls \in ParamClasses) =>
          /\ s_pc = "returned"
          /\ s_res.kw = << <<ParamName(s_inst.cls), s_inst.args[1]>> >>
          /\ s_res.pos = 1
          /\ SampleOutcomes(s_inst) = { s_res.kw }

\* a mirrored directional instance returned the negated magnitude
C10_SignFlipped ==
    /\ s_pc = "returned"
    /\ s_inst.cls = "Rotate"
    /\ s_inst.mirror
    /\ s_inst.args[1] = 3
    /\ s_res.kw = << <<"rotate", -3>> >>

(***************************************************************************)
(* Claims about the policy executor (SpecExec).                            *)
(***************************************************************************)
ClassesOf(img) == [i \in 1 .. Len(img) |-> img[i][1]]

\* the classes of the first n steps whose gate fired, in step order
RECURSIVE FiredClasses(_, _, _)
FiredClasses(steps, fired, n) ==
    IF n = 0 THEN <<>>
    ELSE IF fired[n]
         THEN Append(FiredClasses(steps, fired, n - 1), steps[n].cls)
         ELSE FiredClasses(steps, fired, n - 1)

\* the operations the first n entries of a trace report as applied, in order
RECURSIVE AppliedInLog(_, _)
AppliedInLog(log, n) ==
    IF n = 0 THEN <<>>
    ELSE IF log[n][3]
         THEN Append(AppliedInLog(log, n - 1), <<log[n][1].cls, log[n][2]>>)
         ELSE AppliedInLog(log, n - 1)

\* the number of sign-flip draws the first n steps make
RECURSIVE MirrorDraws(_, _)
MirrorDraws(steps, n) ==
    IF n = 0 THEN 0
    ELSE MirrorDraws(steps, n - 1)
         + (IF steps[n].cls \in AffineClasses /\ steps[n].mirror THEN 1 ELSE 0)

\* C5: a call of __call__ that returns has selected one sub-policy of the table
\* and processed each of its steps once, in list order: the image returned is
\* the input with the operations of the steps whose gate fired applied in step
\* order, the other steps having passed it through; if every step has p = 1.0
\* every step was applied, if every step has p = 0.0 the image is the input.
C5_CallAppliesSelectedSubPolicy ==
    /\ cpc \in {"loop", "done", "raised"} => csel \in 1 .. Len(policy)
    /\ cpc \in {"loop", "done"} =>
          /\ Len(chist) = ck - 1
          /\ ck <= Len(policy[csel]) + 1
          /\ cimg = input \o SubSeq(cimg, Len(input) + 1, Len(cimg))
          /\ ClassesOf(SubSeq(cimg, Len(input) + 1, Len(cimg)))
                = FiredClasses(policy[csel], chist, ck - 1)
    /\ cpc = "done" =>
          LET steps == policy[csel]
          IN  /\ Len(chist) = Len(steps)
              /\ (\A k \in 1 .. Len(steps) : steps[k].p = 10) =>
                    /\ \A k \in 1 .. Len(steps) : chist[k]
                    /\ Len(cimg) = Len(input) + Len(steps)
              /\ (\A k \in 1 .. Len(steps) : steps[k].p = 0) => cimg = input

\* a call returned after applying both steps of a sub-policy whose steps have p = 1.0
C5_AllStepsApplied ==
    /\ cpc = "done"
    /\ Len(policy[csel]) = 2
    /\ \A k \in 1 .. 2 : policy[csel][k].p = 10
    /\ Len(input) = 1
    /\ ClassesOf(cimg) = <<"Loaded", "ShearX", "Posterize">>

\* C6: run on the same input with the same draws, check and __call__ select the
\* same sub-policy, have made the same fire/skip decisions, read the same number
\* of draws and hold the same image whenever they have done the same number of
\* steps, and end the same way with the same image; check reads, besides the
\* selection and the sign flips, exactly one draw per step.
C6_CheckFollowsCall ==
    /\ (cpc \in {"loop", "done", "raised"} /\ kpc \in {"loop", "done", "raised"}) =>
          csel = ksel
    /\ (cpc \in {"loop", "done"} /\ kpc \in {"loop", "done"} /\ ck = kk) =>
          /\ cimg = kimg
          /\ cpos = kpos
          /\ chist = [i \in 1 .. Len(klog) |-> klog[i][3]]
    /\ (cpc \in {"done", "raised"} /\ kpc \in {"done", "raised"}) =>
          /\ cpc = kpc
          /\ ck = kk
          /\ cimg = kimg
          /\ cpos = kpos
    /\ kpc \in {"loop", "done"} =>
          kpos = 2 + MirrorDraws(policy[ksel], kk - 1) + (kk - 1)

\* both calls returned, one step fired and one was skipped, a sign flip was drawn
C6_BothReturned ==
    /\ cpc = "done"
    /\ kpc = "done"
    /\ Len(klog) = 2
    /\ klog[1][1].mirror
    /\ klog[1][3]
    /\ ~klog[2][3]
    /\ cimg = kimg

\* C7: a call of check that returns gives a trace with one entry per step of the
\* selected sub-policy, in step order, skipped steps included; entry k holds the
\* k-th instance, a value its sample() returns, and whether the operation was
\* applied, and the image returned is the input with exactly the operations the
\* trace reports as applied, with the logged parameters, in order.
C7_TraceMatchesSteps ==
    /\ kpc \in {"loop", "done"} =>
          /\ Len(klog) = kk - 1
          /\ \A k \in 1 .. Len(klog) :
                /\ klog[k][1] = policy[ksel][k]
                /\ klog[k][2] \in SampleOutcomes(policy[ksel][k])
          /\ kimg = input \o AppliedInLog(klog, Len(klog))
    /\ kpc = "done" => Len(klog) = Len(policy[ksel])

\* check returned a three-entry trace with a skipped step between two applied ones
C7_TraceWithSkippedStep ==
    /\ kpc = "done"
    /\ Len(klog) = 3
    /\ klog[1][3]
    /\ ~klog[2][3]
    /\ klog[3][3]
    /\ Len(kimg) = Len(input) + 2

\* C8: whatever calls of __call__ and check have run, the policy table is the
\* table as built: the same sub-policies in the same order, every step with its
\* class, p, mirror flag and configured magnitude.
C8_PolicyNeverMutated == policy = policy_built

\* both calls returned after a mirrored step was applied with its sign flipped
C8_AfterFlippedSample ==
    /\ cpc = "done"
    /\ kpc = "done"
    /\ Len(klog) >= 1
    /\ klog[1][1].mirror
    /\ klog[1][3]
    /\ klog[1][2][1][2] < 0
    /\ policy = policy_built

====
